---- MODULE Spec2Model ----
(***************************************************************************)
(* The submission verification and reward / reputation pipeline of the     *)
(* Ritual Mining API: src/main.py (submit_inference), the storage service  *)
(* layer src/frontend/services.py and the judge client                     *)
(* src/claude_verification.py.                                             *)
(*                                                                         *)
(* Numbers: a score is kept in hundredths (0.85 is 85), a reward per       *)
(* submission in whole currency units, so a reward earned is in hundredths *)
(* of a unit (10.0 * 0.85 = 8.5 is 10 * 85 = 850).  A Python string is a   *)
(* sequence of pieces; None is the empty sequence and a present value x is *)
(* the one-element sequence <<x>>.                                         *)
(***************************************************************************)
EXTENDS Integers, Sequences, FiniteSets, TLC

\* ------------------------------------------------------------------ bounds

\* The number of requests the model starts, over all workers.
MaxRequests == 2

\* The number of storage calls that raise, over the whole run.
MaxFaults == 1

\* The number of requests of the scenario of accepted submissions.
MaxCountRequests == 3

\* The length, in pieces, of the judge texts handed to the parser alone.
MaxTextLen == 5

\* The number of get_current_user calls, over all callers.
MaxAuthCalls == 2

\* The length of the verified_credentials lists handed to
\* extract_wallet_address alone.
MaxCredentials == 3

\* ----------------------------------------------------------- small domains

\* The concurrent request handlers (server workers sharing one database).
Workers == {"w1", "w2"}

\* miner_wallet values of the requests.
Wallets == {"0xA", "0xB"}

\* task_id values of the requests: "t1" exists, "t404" does not.
TaskIds == {"t1", "t404"}

\* reward_per_submission of the stored task, in whole units.
RewardChoices == {10}

\* reputation_score of the user that exists before the first request.
InitScores == {1, 98}

\* max_submissions the stored task was created with: the limit 1.
MaxSubmissionChoices == {<<1>>}

None == <<>>

Some(x) == <<x>>

\* --------------------------------------------------------- judge response

\* The pieces a judge text is made of.  A field piece stands for one
\* "key": value member (with its separator) of a JSON object.
FieldTokens ==
  {"is_valid:true", "is_valid:false", "score:0.85", "score:0.1", "score:5",
   "score:high", "feedback:good", "feedback:bad"}

Tokens == FieldTokens \cup {"{", "}", "prose", "42"}

TokKey(tok) ==
  CASE tok \in {"is_valid:true", "is_valid:false"} -> "is_valid"
    [] tok \in {"score:0.85", "score:0.1", "score:5", "score:high"} -> "score"
    [] OTHER -> "feedback"

\* json.loads accepts the text: one object of members, or one bare number.
JsonIsObject(text) ==
  /\ Len(text) >= 2
  /\ text[1] = "{"
  /\ text[Len(text)] = "}"
  /\ \A i \in 2..(Len(text) - 1) : text[i] \in FieldTokens

JsonIsScalar(text) == text = <<"42">>

JsonLoadsOk(text) == JsonIsObject(text) \/ JsonIsScalar(text)

\* re.search(r'\{.*\}', text, re.DOTALL): leftmost "{", greedy to the last "}".
RegexHasMatch(text) ==
  \E i \in 1..Len(text) : \E j \in 1..Len(text) :
     i < j /\ text[i] = "{" /\ text[j] = "}"

RegexMatch(text) ==
  LET i == CHOOSE a \in 1..Len(text) :
             text[a] = "{" /\ \A b \in 1..(a - 1) : text[b] # "{"
      j == CHOOSE a \in 1..Len(text) :
             text[a] = "}" /\ \A b \in (a + 1)..Len(text) : text[b] # "}"
  IN SubSeq(text, i, j)

\* dict.get(key, default) on the loaded object: the last member with the key.
HasKey(obj, key) == \E i \in 1..Len(obj) : TokKey(obj[i]) = key

LastWithKey(obj, key) ==
  obj[CHOOSE i \in 1..Len(obj) :
        TokKey(obj[i]) = key /\ \A k \in (i + 1)..Len(obj) : TokKey(obj[k]) # key]

GetIsValid(obj) ==
  IF HasKey(obj, "is_valid") THEN LastWithKey(obj, "is_valid") = "is_valid:true"
  ELSE FALSE

ScoreIsNumber(obj) ==
  HasKey(obj, "score") => LastWithKey(obj, "score") # "score:high"

\* A score cut to the range 0.0 to 1.0.
GetScoreClamped(obj) ==
  IF ~HasKey(obj, "score") THEN 0
  ELSE CASE LastWithKey(obj, "score") = "score:0.85" -> 85
         [] LastWithKey(obj, "score") = "score:0.1" -> 10
         [] OTHER -> 100

\* float(response_data.get("score", 0.0)), in hundredths, not clamped.
GetScore(obj) ==
  IF ~HasKey(obj, "score") THEN 0
  ELSE CASE LastWithKey(obj, "score") = "score:0.85" -> 85
         [] LastWithKey(obj, "score") = "score:0.1" -> 10
         [] OTHER -> 500

GetFeedback(obj) ==
  IF ~HasKey(obj, "feedback") THEN <<"No feedback provided">>
  ELSE IF LastWithKey(obj, "feedback") = "feedback:good" THEN <<"good">>
  ELSE <<"bad">>

Raised(type, msg) ==
  [ok |-> FALSE, exc |-> type, msg |-> msg,
   is_valid |-> FALSE, ai_score |-> 0, feedback |-> None]

Verdict(obj) ==
  [ok |-> TRUE, exc |-> "none", msg |-> None,
   is_valid |-> GetIsValid(obj), ai_score |-> GetScore(obj),
   feedback |-> GetFeedback(obj)]

\* VerificationResult(...) built from the loaded value.
BuildResult(loaded) ==
  IF JsonIsScalar(loaded)
  THEN Raised("AttributeError", <<"'int' object has no attribute 'get'">>)
  ELSE LET obj == SubSeq(loaded, 2, Len(loaded) - 1)
       IN IF ~ScoreIsNumber(obj)
          THEN Raised("ValueError", <<"could not convert string to float">>)
          ELSE Verdict(obj)

parse_claude_response(text) ==
  IF JsonLoadsOk(text) THEN BuildResult(text)
  ELSE IF RegexHasMatch(text)
       THEN IF JsonLoadsOk(RegexMatch(text)) THEN BuildResult(RegexMatch(text))
            ELSE Raised("JSONDecodeError", <<"Extra data">>)
       ELSE Raised("VerificationError",
                   <<"Could not parse Claude response: ">> \o text)

\* ------------------------------------------------------------------ state

VARIABLES
  tasks,              \* table tasks: id -> row
  users,              \* table users: the rows in insertion order, id = index
  submissions,        \* table submissions: the rows, id = index
  reputation_events,  \* table reputation_events: the rows in insertion order
  req,                \* each worker's request: its position and locals
  hist,               \* per submission: what the request that made it did
  started,            \* requests started so far
  faults,             \* storage calls that raised so far
  api_key_set,        \* CLAUDE_API_KEY is set in the server's environment
  CLAUDE_AVAILABLE,   \* the import of claude_verification succeeded
  jwks_cache,         \* auth.py _jwks_cache: None or the cached key set
  jwks_served,        \* the key set Dynamic's JWKS endpoint serves now
  DYNAMIC_ENVIRONMENT_ID,  \* the environment variable is set
  auth,               \* each caller's get_current_user call: position and locals
  auth_calls          \* get_current_user calls started so far

authVars == <<jwks_cache, jwks_served, DYNAMIC_ENVIRONMENT_ID, auth, auth_calls>>

vars ==
  <<tasks, users, submissions, reputation_events, req, hist, started, faults,
    api_key_set, CLAUDE_AVAILABLE, authVars>>

NoExc == [type |-> "none", cause |-> "none", msg |-> None]

NoToken == [key |-> 0, kind |-> "none", credentials |-> <<>>]

IdleCall ==
  [pc |-> "idle", token |-> NoToken, jwks |-> None, fresh_jwks |-> None,
   decodes |-> 0, clears |-> 0, fetches |-> 0, last_decode |-> "none",
   outcome |-> 0, wallet |-> None]

\* No request has reached the authentication module yet.
AuthIdle ==
  /\ jwks_cache = None
  /\ jwks_served = 1
  /\ DYNAMIC_ENVIRONMENT_ID = TRUE
  /\ auth = [c \in Workers |-> IdleCall]
  /\ auth_calls = 0

NoResult ==
  [is_valid |-> FALSE, ai_score |-> 0, feedback |-> None, execution_time_ms |-> 0]

IdleReq ==
  [pc |-> "idle", task_id |-> "none", wallet |-> "none", user |-> 0, sid |-> 0,
   branch |-> "none", text |-> None, result |-> NoResult, exc |-> NoExc,
   execution_time |-> None, read |-> 0, response |-> 0]

\* The default timeout_seconds of ClaudeVerificationClient.verify_submission.
timeout_seconds == 30

\* What the judge may answer in a request.
JudgeTexts ==
  { <<"{", "is_valid:true", "score:0.85", "feedback:good", "}">>,
    <<"{", "is_valid:false", "score:0.1", "feedback:bad", "}">>,
    <<"{", "is_valid:true", "score:5", "feedback:good", "}">>,
    <<"prose", "{", "is_valid:false", "score:0.1", "feedback:bad", "}", "prose">>,
    <<"prose", "prose">> }

\* Wall-clock durations of a verification, in microseconds.
ElapsedChoices == {30000999, 30001000}

Init ==
  /\ tasks \in [{"t1"} -> [reward_per_submission : RewardChoices,
                           current_submissions : {0},
                           max_submissions : MaxSubmissionChoices]]
  /\ users \in { <<[wallet_address |-> "0xA", reputation_score |-> s,
                    total_tasks_completed |-> 0, total_rewards_earned |-> 0]>> :
                 s \in InitScores }
  /\ submissions = <<>>
  /\ reputation_events = <<>>
  /\ req = [w \in Workers |-> IdleReq]
  /\ hist = <<>>
  /\ started = 0
  /\ faults = 0
  /\ api_key_set \in BOOLEAN
  /\ CLAUDE_AVAILABLE = TRUE
  /\ AuthIdle

\* ------------------------------------------------------- request plumbing

\* The handler returns or raises HTTPException: the HTTP status of the answer.
Respond(w, code) ==
  /\ req' = [req EXCEPT ![w] = [IdleReq EXCEPT !.pc = "done", !.response = code,
                                               !.sid = req[w].sid,
                                               !.task_id = req[w].task_id,
                                               !.branch = req[w].branch]]
  /\ hist' = IF req[w].sid = 0 THEN hist
             ELSE [hist EXCEPT ![req[w].sid].response = code]

\* raise VerificationError(f"Verification failed: {str(e)}") from e
Wrap(e) ==
  [type |-> "VerificationError", cause |-> e.type,
   msg |-> <<"Verification failed: ">> \o e.msg]

\* An exception leaves the verify_submission call of submit_inference: the
\* handler of the inner try takes over.
VerifyRaises(w, e, h, t) ==
  /\ req' = [req EXCEPT ![w].pc = "update_sub", ![w].branch = "except", ![w].exc = e,
                        ![w].text = None, ![w].result = NoResult,
                        ![w].execution_time = t]
  /\ hist' = [hist EXCEPT ![req[w].sid] = [h EXCEPT !.verify = "raised"]]

StartRequest(w) ==
  /\ req[w].pc = "idle"
  /\ started < MaxRequests
  /\ \E t \in TaskIds : \E a \in Wallets :
       req' = [req EXCEPT ![w] = [IdleReq EXCEPT !.pc = "get_task", !.task_id = t,
                                                 !.wallet = a]]
  /\ started' = started + 1
  /\ UNCHANGED <<tasks, users, submissions, reputation_events, hist, faults, api_key_set, CLAUDE_AVAILABLE, authVars>>

\* A handler that makes the pending row before it looks the task up.
GetTaskAfterCreate(w) ==
  /\ req[w].pc = "get_task"
  /\ IF req[w].task_id \in DOMAIN tasks
     THEN /\ req' = [req EXCEPT ![w].pc = "user_select"]
          /\ hist' = hist
          /\ submissions' = submissions
     ELSE /\ submissions' = Append(submissions,
                [task_id |-> req[w].task_id, user_id |-> 0, ai_score |-> <<>>,
                 is_valid |-> <<>>, feedback |-> <<>>, reward_earned |-> 0])
          /\ hist' = Append(hist, [status |-> "pending", writes |-> 0,
                                   judge_calls |-> 0, parsed |-> FALSE,
                                   verify |-> "none", result |-> <<>>,
                                   response |-> 404])
          /\ req' = [req EXCEPT ![w].pc = "done", ![w].response = 404]
  /\ UNCHANGED <<tasks, users, reputation_events, started, faults, api_key_set, CLAUDE_AVAILABLE, authVars>>

\* TaskService.get_task, and the 404 of submit_inference.
GetTask(w) ==
  /\ req[w].pc = "get_task"
  /\ IF req[w].task_id \in DOMAIN tasks
     THEN req' = [req EXCEPT ![w].pc = "user_select"] /\ hist' = hist
     ELSE Respond(w, 404)
  /\ UNCHANGED <<tasks, users, submissions, reputation_events, started, faults, api_key_set, CLAUDE_AVAILABLE, authVars>>

\* UserService.get_or_create_user: the select.
UserSelect(w) ==
  /\ req[w].pc = "user_select"
  /\ LET found == {i \in 1..Len(users) : users[i].wallet_address = req[w].wallet}
     IN IF found # {}
        THEN req' = [req EXCEPT ![w].pc = "create_submission",
                                ![w].user = CHOOSE i \in found : \A k \in found : i <= k]
        ELSE req' = [req EXCEPT ![w].pc = "user_insert"]
  /\ UNCHANGED <<tasks, users, submissions, reputation_events, hist, started, faults, api_key_set, CLAUDE_AVAILABLE, authVars>>

\* UserService.get_or_create_user: the insert of a new user.
UserInsert(w) ==
  /\ req[w].pc = "user_insert"
  /\ users' = Append(users, [wallet_address |-> req[w].wallet, reputation_score |-> 50,
                             total_tasks_completed |-> 0, total_rewards_earned |-> 0])
  /\ req' = [req EXCEPT ![w].pc = "create_submission", ![w].user = Len(users) + 1]
  /\ UNCHANGED <<tasks, submissions, reputation_events, hist, started, faults, api_key_set, CLAUDE_AVAILABLE, authVars>>

NewHist ==
  [status |-> "pending", writes |-> 0, judge_calls |-> 0, parsed |-> FALSE,
   verify |-> "none", result |-> None, response |-> 0]

\* SubmissionService.create_submission: the pending row.
CreateSubmission(w) ==
  /\ req[w].pc = "create_submission"
  /\ submissions' = Append(submissions,
        [task_id |-> req[w].task_id, user_id |-> req[w].user, ai_score |-> None,
         is_valid |-> None, feedback |-> None, reward_earned |-> 0])
  /\ hist' = Append(hist, NewHist)
  /\ req' = [req EXCEPT ![w].pc = "client_init", ![w].sid = Len(submissions) + 1,
                        ![w].branch = "try"]
  /\ UNCHANGED <<tasks, users, reputation_events, started, faults, api_key_set, CLAUDE_AVAILABLE, authVars>>

\* The answer is sent: the worker is free for the next request.
Finish(w) ==
  /\ req[w].pc = "done"
  /\ req' = [req EXCEPT ![w] = IdleReq]
  /\ UNCHANGED <<tasks, users, submissions, reputation_events, hist, started, faults, api_key_set, CLAUDE_AVAILABLE, authVars>>

\* ----------------------------------------------------------- verification

\* verify_submission builds the client first, outside the client's own try:
\* without CLAUDE_API_KEY the constructor's ValueError leaves it unwrapped.
ClientInit(w) ==
  /\ req[w].pc = "client_init"
  /\ IF api_key_set
     THEN req' = [req EXCEPT ![w].pc = "judge_call"] /\ hist' = hist
     ELSE VerifyRaises(w, [type |-> "ValueError", cause |-> "none",
                           msg |-> <<"CLAUDE_API_KEY not set in environment or passed as argument">>],
                       hist[req[w].sid], None)
  /\ UNCHANGED <<tasks, users, submissions, reputation_events, started, faults, api_key_set, CLAUDE_AVAILABLE, authVars>>

\* A judge call that is made again after it raised.
JudgeCallRetry(w) ==
  /\ req[w].pc = "judge_call"
  /\ hist[req[w].sid].judge_calls < 3
  /\ LET h == [hist[req[w].sid] EXCEPT !.judge_calls = @ + 1]
     IN \/ \E text \in JudgeTexts :
             /\ req' = [req EXCEPT ![w].pc = "parse", ![w].text = text]
             /\ hist' = [hist EXCEPT ![req[w].sid] = h]
        \/ /\ req' = req
           /\ hist' = [hist EXCEPT ![req[w].sid] = h]
  /\ UNCHANGED <<tasks, users, submissions, reputation_events, started, faults, api_key_set, CLAUDE_AVAILABLE, authVars>>

\* self.client.messages.create(...): the one judge call; it answers or raises.
JudgeCall(w) ==
  /\ req[w].pc = "judge_call"
  /\ LET h == [hist[req[w].sid] EXCEPT !.judge_calls = @ + 1]
     IN \/ \E text \in JudgeTexts :
             /\ req' = [req EXCEPT ![w].pc = "parse", ![w].text = text]
             /\ hist' = [hist EXCEPT ![req[w].sid] = h]
        \/ VerifyRaises(w, Wrap([type |-> "APIConnectionError", cause |-> "none",
                                 msg |-> <<"Connection error.">>]), h, None)
  /\ UNCHANGED <<tasks, users, submissions, reputation_events, started, faults, api_key_set, CLAUDE_AVAILABLE, authVars>>

\* result = self._parse_claude_response(response_text, ...)
ParseResponse(w) ==
  /\ req[w].pc = "parse"
  /\ LET r == parse_claude_response(req[w].text)
         h == hist[req[w].sid]
     IN IF r.ok
        THEN /\ req' = [req EXCEPT ![w].pc = "timing", ![w].text = None,
                                   ![w].result = [is_valid |-> r.is_valid,
                                                  ai_score |-> r.ai_score,
                                                  feedback |-> r.feedback,
                                                  execution_time_ms |-> 0]]
             /\ hist' = [hist EXCEPT ![req[w].sid].parsed = TRUE]
        ELSE VerifyRaises(w, Wrap([type |-> r.exc, cause |-> "none", msg |-> r.msg]), h, None)
  /\ UNCHANGED <<tasks, users, submissions, reputation_events, started, faults, api_key_set, CLAUDE_AVAILABLE, authVars>>

\* int((time.time() - start_time) * 1000), from microseconds.
ExecutionTimeMs(elapsed_us) == elapsed_us \div 1000

TimedOutInclusive(execution_time, timeout) == execution_time >= timeout * 1000

\* if execution_time > timeout_seconds * 1000: raise TimeoutError(...)
TimedOut(execution_time, timeout) == execution_time > timeout * 1000

\* The measurement after the judge answered and the answer was parsed.
CheckTiming(w) ==
  /\ req[w].pc = "timing"
  /\ \E us \in ElapsedChoices :
       LET ms == ExecutionTimeMs(us)
           h == hist[req[w].sid]
           res == [req[w].result EXCEPT !.execution_time_ms = ms]
       IN IF TimedOut(ms, timeout_seconds)
          THEN VerifyRaises(w, Wrap([type |-> "TimeoutError", cause |-> "none",
                                     msg |-> <<"Verification took ", ToString(ms),
                                               "ms, exceeded ", ToString(timeout_seconds),
                                               "s limit">>]), h, Some(ms))
          ELSE /\ req' = [req EXCEPT ![w].pc = "update_sub", ![w].result = res,
                                     ![w].execution_time = Some(ms)]
               /\ hist' = [hist EXCEPT ![req[w].sid] =
                             [h EXCEPT !.verify = "returned",
                                       !.result = Some([is_valid |-> res.is_valid,
                                                        ai_score |-> res.ai_score,
                                                        feedback |-> res.feedback])]]
  /\ UNCHANGED <<tasks, users, submissions, reputation_events, started, faults, api_key_set, CLAUDE_AVAILABLE, authVars>>

\* ------------------------------------------------- persisting the outcome

RewardClamped(reward_per_submission, ai_score) ==
  reward_per_submission *
    (IF ai_score > 100 THEN 100 ELSE IF ai_score < 0 THEN 0 ELSE ai_score)

\* reward_earned = task["reward_per_submission"] * verification_result.ai_score
Reward(reward_per_submission, ai_score) == reward_per_submission * ai_score

\* A handler that keeps what the success path wrote and records no message.
ResultFieldsNoMessage(r) ==
  IF r.branch = "try"
  THEN [ai_score |-> Some(r.result.ai_score), is_valid |-> Some(r.result.is_valid),
        feedback |-> r.result.feedback,
        reward_earned |-> Reward(tasks[r.task_id].reward_per_submission,
                                 r.result.ai_score)]
  ELSE [ai_score |-> Some(0), is_valid |-> Some(FALSE),
        feedback |-> <<"Verification error: ">>, reward_earned |-> 0]

\* A reward that is paid for a valid verdict only.
ResultFieldsValidOnly(r) ==
  IF r.branch = "try"
  THEN [ai_score |-> Some(r.result.ai_score), is_valid |-> Some(r.result.is_valid),
        feedback |-> r.result.feedback,
        reward_earned |-> IF r.result.is_valid
                          THEN Reward(tasks[r.task_id].reward_per_submission,
                                      r.result.ai_score)
                          ELSE 0]
  ELSE [ai_score |-> Some(0), is_valid |-> Some(FALSE),
        feedback |-> <<"Verification error: ">> \o r.exc.msg, reward_earned |-> 0]

\* The fields submit_inference hands to update_submission_verification, on
\* the success path and in the handler of the inner try.
ResultFields(r) ==
  IF r.branch = "try"
  THEN [ai_score |-> Some(r.result.ai_score), is_valid |-> Some(r.result.is_valid),
        feedback |-> r.result.feedback,
        reward_earned |-> Reward(tasks[r.task_id].reward_per_submission,
                                 r.result.ai_score)]
  ELSE [ai_score |-> Some(0), is_valid |-> Some(FALSE),
        feedback |-> <<"Verification error: ">> \o r.exc.msg, reward_earned |-> 0]

\* A handler that goes on to the reputation event without the write.
UpdateSubmissionSkipped(w) ==
  /\ req[w].pc = "update_sub"
  /\ submissions' = submissions
  /\ hist' = hist
  /\ req' = [req EXCEPT ![w].pc = "insert_event"]
  /\ UNCHANGED <<tasks, users, reputation_events, started, faults, api_key_set, CLAUDE_AVAILABLE, authVars>>

\* SubmissionService.update_submission_verification
UpdateSubmissionVerification(w) ==
  /\ req[w].pc = "update_sub"
  /\ LET f == ResultFields(req[w])
     IN submissions' = [submissions EXCEPT ![req[w].sid] =
                          [@ EXCEPT !.ai_score = f.ai_score, !.is_valid = f.is_valid,
                                    !.feedback = f.feedback,
                                    !.reward_earned = f.reward_earned]]
  /\ hist' = [hist EXCEPT ![req[w].sid].writes = @ + 1,
                          ![req[w].sid].status =
                             IF req[w].branch = "try" THEN "completed" ELSE "failed"]
  /\ req' = [req EXCEPT ![w].pc = "insert_event"]
  /\ UNCHANGED <<tasks, users, reputation_events, started, faults, api_key_set, CLAUDE_AVAILABLE, authVars>>

\* The arguments submit_inference passes to create_reputation_event.
EventFor(r) ==
  IF r.branch = "try"
  THEN IF r.result.is_valid
       THEN [event_type |-> "submission_accepted", reason |-> r.result.feedback,
             delta |-> 5]
       ELSE [event_type |-> "submission_rejected", reason |-> r.result.feedback,
             delta |-> -2]
  ELSE [event_type |-> "submission_rejected", reason |-> <<"Verification failed">>,
        delta |-> -1]

\* An insert that records the change the clamp will let through.
InsertEventEffective(w) ==
  /\ req[w].pc = "insert_event"
  /\ LET e == EventFor(req[w])
         old == users[req[w].user].reputation_score
         new == IF old + e.delta > 100 THEN 100
                ELSE IF old + e.delta < 0 THEN 0 ELSE old + e.delta
     IN reputation_events' = Append(reputation_events,
          [user_id |-> req[w].user, event_type |-> e.event_type,
           reason |-> e.reason, delta |-> new - old, sid |-> req[w].sid])
  /\ req' = [req EXCEPT ![w].pc = "rep_select"]
  /\ UNCHANGED <<tasks, users, submissions, hist, started, faults, api_key_set, CLAUDE_AVAILABLE, authVars>>

\* ReputationService.create_reputation_event: the insert of the event.
InsertEvent(w) ==
  /\ req[w].pc = "insert_event"
  /\ LET e == EventFor(req[w])
     IN reputation_events' = Append(reputation_events,
          [user_id |-> req[w].user, event_type |-> e.event_type,
           reason |-> e.reason, delta |-> e.delta, sid |-> req[w].sid])
  /\ req' = [req EXCEPT ![w].pc = "rep_select"]
  /\ UNCHANGED <<tasks, users, submissions, hist, started, faults, api_key_set, CLAUDE_AVAILABLE, authVars>>

\* What follows create_reputation_event: the count on the success path, the
\* HTTP 500 in the handler.
AfterReputation(w) ==
  IF req[w].branch = "try"
  THEN req' = [req EXCEPT ![w].pc = "count_select", ![w].read = 0] /\ hist' = hist
  ELSE Respond(w, 500)

\* UserService.update_user_reputation: the select of the current score.
RepSelect(w) ==
  /\ req[w].pc = "rep_select"
  /\ IF req[w].user \in 1..Len(users)
     THEN /\ req' = [req EXCEPT ![w].pc = "rep_update",
                                ![w].read = users[req[w].user].reputation_score]
          /\ hist' = hist
     ELSE AfterReputation(w)
  /\ UNCHANGED <<tasks, users, submissions, reputation_events, started, faults, api_key_set, CLAUDE_AVAILABLE, authVars>>

NoClamp(score) == score

\* A clamp that forgets the lower limit.
ClampUpperOnly(score) == IF score < 100 THEN score ELSE 100

\* max(0, min(100, current_rep + delta))
Clamp(score) ==
  LET low == IF score < 100 THEN score ELSE 100
  IN IF low > 0 THEN low ELSE 0

\* An update that returns without writing the score.
RepUpdateSkipped(w) ==
  /\ req[w].pc = "rep_update"
  /\ users' = users
  /\ AfterReputation(w)
  /\ UNCHANGED <<tasks, submissions, reputation_events, started, faults, api_key_set, CLAUDE_AVAILABLE, authVars>>

\* An update that also counts the submission in the user's totals.
RepUpdateCountsCompleted(w) ==
  /\ req[w].pc = "rep_update"
  /\ users' = [users EXCEPT ![req[w].user].reputation_score =
                 Clamp(req[w].read + EventFor(req[w]).delta),
                            ![req[w].user].total_tasks_completed = @ + 1]
  /\ AfterReputation(w)
  /\ UNCHANGED <<tasks, submissions, reputation_events, started, faults, api_key_set, CLAUDE_AVAILABLE, authVars>>

\* UserService.update_user_reputation: the write of the clamped score.
RepUpdate(w) ==
  /\ req[w].pc = "rep_update"
  /\ users' = [users EXCEPT ![req[w].user].reputation_score =
                 Clamp(req[w].read + EventFor(req[w]).delta)]
  /\ AfterReputation(w)
  /\ UNCHANGED <<tasks, submissions, reputation_events, started, faults, api_key_set, CLAUDE_AVAILABLE, authVars>>

\* TaskService.update_task_submission_count: the select.
CountSelect(w) ==
  /\ req[w].pc = "count_select"
  /\ IF req[w].task_id \in DOMAIN tasks
     THEN /\ req' = [req EXCEPT ![w].pc = "count_update",
                                ![w].read = tasks[req[w].task_id].current_submissions]
          /\ hist' = hist
     ELSE Respond(w, 200)
  /\ UNCHANGED <<tasks, users, submissions, reputation_events, started, faults, api_key_set, CLAUDE_AVAILABLE, authVars>>

\* TaskService.update_task_submission_count: the write, then the success payload.
CountUpdate(w) ==
  /\ req[w].pc = "count_update"
  /\ tasks' = [tasks EXCEPT ![req[w].task_id].current_submissions = req[w].read + 1]
  /\ Respond(w, 200)
  /\ UNCHANGED <<users, submissions, reputation_events, started, faults, api_key_set, CLAUDE_AVAILABLE, authVars>>

\* ------------------------------------------------------------ storage faults

StoragePcs ==
  {"get_task", "user_select", "user_insert", "create_submission", "update_sub",
   "insert_event", "rep_select", "rep_update", "count_select", "count_update"}

\* A storage call raises and writes nothing.  On the success path of the
\* inner try the handler `except Exception` takes over; before the inner try
\* and inside its handler the outer `except Exception` answers 500.
StorageRaises(w) ==
  /\ req[w].pc \in StoragePcs
  /\ faults < MaxFaults
  /\ faults' = faults + 1
  /\ IF req[w].branch = "try"
     THEN /\ req' = [req EXCEPT ![w].pc = "update_sub", ![w].branch = "except",
                                ![w].read = 0, ![w].result = NoResult,
                                ![w].execution_time = None,
                                ![w].exc = [type |-> "APIError", cause |-> "none",
                                            msg |-> <<"storage unavailable">>]]
          /\ hist' = hist
     ELSE Respond(w, 500)
  /\ UNCHANGED <<tasks, users, submissions, reputation_events, started, api_key_set, CLAUDE_AVAILABLE, authVars>>

\* ------------------------------------------------------------ specification

Next ==
  \E w \in Workers :
    \/ StartRequest(w)
    \/ GetTask(w)
    \/ UserSelect(w)
    \/ UserInsert(w)
    \/ CreateSubmission(w)
    \/ ClientInit(w)
    \/ JudgeCall(w)
    \/ ParseResponse(w)
    \/ CheckTiming(w)
    \/ UpdateSubmissionVerification(w)
    \/ InsertEvent(w)
    \/ RepSelect(w)
    \/ RepUpdate(w)
    \/ CountSelect(w)
    \/ CountUpdate(w)
    \/ StorageRaises(w)
    \/ Finish(w)

Spec == Init /\ [][Next]_vars

\* ------------------------------------- scenario: accepted submissions only

\* Every request is for the stored task and the stored user, the judge
\* answers the valid verdict within the time limit and no storage call
\* raises: each request runs the success path of submit_inference to its end.
InitCount ==
  /\ Init
  /\ api_key_set
  /\ users[1].reputation_score = 1

StartCountRequest(w) ==
  /\ req[w].pc = "idle"
  /\ started < MaxCountRequests
  /\ req' = [req EXCEPT ![w] = [IdleReq EXCEPT !.pc = "get_task", !.task_id = "t1",
                                            !.wallet = "0xA"]]
  /\ started' = started + 1
  /\ UNCHANGED <<tasks, users, submissions, reputation_events, hist, faults, api_key_set, CLAUDE_AVAILABLE, authVars>>

JudgeCallValid(w) ==
  /\ JudgeCall(w)
  /\ req'[w].text = <<"{", "is_valid:true", "score:0.85", "feedback:good", "}">>

CheckTimingInTime(w) ==
  /\ CheckTiming(w)
  /\ req'[w].execution_time = Some(30000)

NextCount ==
  \E w \in Workers :
    \/ StartCountRequest(w)
    \/ GetTask(w)
    \/ UserSelect(w)
    \/ CreateSubmission(w)
    \/ ClientInit(w)
    \/ JudgeCallValid(w)
    \/ ParseResponse(w)
    \/ CheckTimingInTime(w)
    \/ UpdateSubmissionVerification(w)
    \/ InsertEvent(w)
    \/ RepSelect(w)
    \/ RepUpdate(w)
    \/ CountSelect(w)
    \/ CountUpdate(w)
    \/ Finish(w)

SpecCount == InitCount /\ [][NextCount]_vars

\* ------------------------------ variant with the mock fallback (app.py)

\* src/backend/app.py keeps tasks and submissions in the dictionaries of one
\* process and has no users and no reputation events.  Its handler is an
\* async function that never awaits: a request runs to its answer before the
\* next one starts.
InitApp ==
  /\ tasks \in [{"t1"} -> [reward_per_submission : RewardChoices,
                           current_submissions : {0},
                           max_submissions : MaxSubmissionChoices]]
  /\ users = <<>>
  /\ submissions = <<>>
  /\ reputation_events = <<>>
  /\ req = [w \in Workers |-> IdleReq]
  /\ hist = <<>>
  /\ started = 0
  /\ faults = 0
  /\ api_key_set \in BOOLEAN
  /\ CLAUDE_AVAILABLE \in BOOLEAN
  /\ AuthIdle

AppStartRequest(w) ==
  /\ req[w].pc = "idle"
  /\ \A v \in Workers : req[v].pc = "idle"
  /\ started < MaxRequests
  /\ \E t \in TaskIds :
       req' = [req EXCEPT ![w] = [IdleReq EXCEPT !.pc = "app_get_task", !.task_id = t]]
  /\ started' = started + 1
  /\ UNCHANGED <<tasks, users, submissions, reputation_events, hist, faults, api_key_set, CLAUDE_AVAILABLE, authVars>>

\* tasks_db.get(task_id), and the 404.
AppGetTask(w) ==
  /\ req[w].pc = "app_get_task"
  /\ IF req[w].task_id \in DOMAIN tasks
     THEN req' = [req EXCEPT ![w].pc = "app_create"] /\ hist' = hist
     ELSE Respond(w, 404)
  /\ UNCHANGED <<tasks, users, submissions, reputation_events, started, faults, api_key_set, CLAUDE_AVAILABLE, authVars>>

\* The pending entry of submissions_db, then `if CLAUDE_AVAILABLE`.
AppCreateSubmission(w) ==
  /\ req[w].pc = "app_create"
  /\ submissions' = Append(submissions,
        [task_id |-> req[w].task_id, status |-> "pending", ai_score |-> None,
         is_valid |-> None, feedback |-> None, reward_earned |-> 0,
         model_used |-> None, verification_type |-> None])
  /\ hist' = Append(hist, NewHist)
  /\ req' = [req EXCEPT ![w].sid = Len(submissions) + 1,
                        ![w].pc = IF CLAUDE_AVAILABLE THEN "client_init" ELSE "update_sub",
                        ![w].branch = IF CLAUDE_AVAILABLE THEN "try" ELSE "mock"]
  /\ UNCHANGED <<tasks, users, reputation_events, started, faults, api_key_set, CLAUDE_AVAILABLE, authVars>>

\* get_mock_verification_result_object
MockVerificationResult ==
  [is_valid |-> TRUE, ai_score |-> 85,
   feedback |-> <<"Mock verification: Submission appears correct based on task requirements">>,
   model_used |-> "mock-verifier"]

\* The verification_result and verification_type of the three branches: the
\* live verdict, the mock after `except Exception`, the mock of the else.
AppVerification(r) ==
  IF r.branch = "try"
  THEN [result |-> [is_valid |-> r.result.is_valid, ai_score |-> r.result.ai_score,
                    feedback |-> r.result.feedback,
                    model_used |-> "claude-3-5-sonnet-20241022"],
        verification_type |-> "claude_ai"]
  ELSE [result |-> MockVerificationResult,
        verification_type |-> IF r.branch = "except" THEN "mock_fallback" ELSE "mock"]

\* The reward, the update of the submission to completed, the increment of
\* the task's count and the success payload.
AppUpdateSubmission(w) ==
  /\ req[w].pc = "update_sub"
  /\ LET v == AppVerification(req[w])
     IN submissions' = [submissions EXCEPT ![req[w].sid] =
          [@ EXCEPT !.ai_score = Some(v.result.ai_score),
                    !.is_valid = Some(v.result.is_valid),
                    !.feedback = v.result.feedback,
                    !.reward_earned = Reward(tasks[req[w].task_id].reward_per_submission,
                                             v.result.ai_score),
                    !.status = "completed",
                    !.model_used = Some(v.result.model_used),
                    !.verification_type = Some(v.verification_type)]]
  /\ tasks' = [tasks EXCEPT ![req[w].task_id].current_submissions = @ + 1]
  /\ req' = [req EXCEPT ![w] = [IdleReq EXCEPT !.pc = "done", !.response = 200,
                                               !.sid = req[w].sid,
                                               !.task_id = req[w].task_id,
                                               !.branch = req[w].branch]]
  /\ hist' = [hist EXCEPT ![req[w].sid].writes = @ + 1,
                          ![req[w].sid].status = "completed",
                          ![req[w].sid].response = 200]
  /\ UNCHANGED <<users, reputation_events, started, faults, api_key_set, CLAUDE_AVAILABLE, authVars>>

NextApp ==
  \E w \in Workers :
    \/ AppStartRequest(w)
    \/ AppGetTask(w)
    \/ AppCreateSubmission(w)
    \/ ClientInit(w)
    \/ JudgeCall(w)
    \/ ParseResponse(w)
    \/ CheckTiming(w)
    \/ AppUpdateSubmission(w)
    \/ Finish(w)

SpecApp == InitApp /\ [][NextApp]_vars

\* ------------------------------------------ scenario: the parser alone

\* The pieces of the texts: braces, prose, a bare number, and members with a
\* boolean, a number, a string where a number is expected, and a string.
ParseTokens ==
  {"{", "}", "prose", "42", "is_valid:true", "score:5", "score:high",
   "feedback:good"}

\* Every text of at most MaxTextLen pieces.
ParseTexts == UNION {[1..n -> ParseTokens] : n \in 0..MaxTextLen}

\* The judge has just answered the first request: response.content[0].text
\* is any text, and _parse_claude_response is the next thing to run.
InitParse ==
  /\ tasks = [t \in {"t1"} |-> [reward_per_submission |-> 10,
                                current_submissions |-> 0,
                                max_submissions |-> <<1>>]]
  /\ users = <<[wallet_address |-> "0xA", reputation_score |-> 98,
                total_tasks_completed |-> 0, total_rewards_earned |-> 0]>>
  /\ submissions = <<[task_id |-> "t1", user_id |-> 1, ai_score |-> None,
                      is_valid |-> None, feedback |-> None, reward_earned |-> 0]>>
  /\ reputation_events = <<>>
  /\ \E text \in ParseTexts :
       req = [w \in Workers |->
                IF w = "w1"
                THEN [IdleReq EXCEPT !.pc = "parse", !.task_id = "t1",
                                     !.wallet = "0xA", !.user = 1, !.sid = 1,
                                     !.branch = "try", !.text = text]
                ELSE IdleReq]
  /\ hist = <<[NewHist EXCEPT !.judge_calls = 1]>>
  /\ started = 1
  /\ faults = 0
  /\ api_key_set = TRUE
  /\ CLAUDE_AVAILABLE = TRUE
  /\ AuthIdle

NextParse == \E w \in Workers : ParseResponse(w)

SpecParse == InitParse /\ [][NextParse]_vars

\* ------------------------------------- authentication (src/backend/auth.py)

pipelineVars ==
  <<tasks, users, submissions, reputation_events, req, hist, started, faults,
    api_key_set, CLAUDE_AVAILABLE>>

\* The verified_credentials of the tokens of the authentication scenario.
AuthCredentialChoices == {<<>>, <<[chain |-> "eip155", address |-> "A"]>>}

\* The bearer tokens: signed with key set 1 or 2 or with a key Dynamic never
\* had (0); in date, expired, or not a JWT at all.
AuthTokens ==
  [key : {0, 1, 2}, kind : {"good", "expired"}, credentials : AuthCredentialChoices]
    \cup {[key |-> 0, kind |-> "malformed", credentials |-> <<>>]}

\* jwt.decode(token, jwks, algorithms=["RS256"], ...): the payload, or a
\* JWTError with its message.  The signature is checked before the expiry.
jwt_decode(token, keys) ==
  IF token.kind = "malformed" THEN [ok |-> FALSE, msg |-> "Not enough segments"]
  ELSE IF token.key # keys
       THEN [ok |-> FALSE, msg |-> "Signature verification failed."]
  ELSE IF token.kind = "expired" THEN [ok |-> FALSE, msg |-> "Signature has expired."]
  ELSE [ok |-> TRUE, msg |-> ""]

\* "signature" in error_msg.lower()
MentionsSignature(msg) ==
  msg \in {"Signature verification failed.", "Signature has expired."}

\* The call ends: the payload's user, or an HTTPException.
AuthEnd(call, code) == [call EXCEPT !.pc = "done", !.outcome = code]

\* get_current_user is called with the Authorization header of a request.
AuthStart(c) ==
  /\ auth[c].pc = "idle"
  /\ auth_calls < MaxAuthCalls
  /\ auth_calls' = auth_calls + 1
  /\ \E tok \in AuthTokens \cup {NoToken} :
       auth' = [auth EXCEPT ![c] =
                  IF tok = NoToken THEN AuthEnd(IdleCall, 401)
                  ELSE [IdleCall EXCEPT !.pc = "verify", !.token = tok]]
  /\ UNCHANGED <<pipelineVars, jwks_cache, jwks_served, DYNAMIC_ENVIRONMENT_ID>>

\* The first jwt.decode of verify_dynamic_token with the key set get_jwks
\* returned (the cache then holds `cached`), and, on a JWTError that mentions
\* the signature, clear_jwks_cache and the start of the second get_jwks.
FirstDecode(c, keys, cached) ==
  LET r == jwt_decode(auth[c].token, keys)
      a == [auth[c] EXCEPT !.jwks = Some(keys), !.decodes = @ + 1,
                           !.last_decode = IF r.ok THEN "ok" ELSE "failed"]
  IN IF r.ok
     THEN /\ auth' = [auth EXCEPT ![c] = [a EXCEPT !.pc = "verified"]]
          /\ jwks_cache' = cached
     ELSE IF MentionsSignature(r.msg)
          THEN /\ jwks_cache' = None
               /\ auth' = [auth EXCEPT ![c] =
                    IF DYNAMIC_ENVIRONMENT_ID
                    THEN [a EXCEPT !.clears = @ + 1, !.fetches = @ + 1, !.pc = "fetch2"]
                    ELSE AuthEnd([a EXCEPT !.clears = @ + 1], 500)]
          ELSE /\ auth' = [auth EXCEPT ![c] = AuthEnd(a, 401)]
               /\ jwks_cache' = cached

\* A get_jwks that fetches whether or not the cache is set.
VerifyBeginNoCache(c) ==
  /\ auth[c].pc = "verify"
  /\ auth' = [auth EXCEPT ![c].pc = "fetch1", ![c].fetches = @ + 1]
  /\ UNCHANGED <<pipelineVars, jwks_cache, jwks_served, DYNAMIC_ENVIRONMENT_ID, auth_calls>>

\* verify_dynamic_token up to its first await: get_jwks returns the cached
\* key set and the token is decoded at once, or get_jwks starts the fetch.
VerifyBegin(c) ==
  /\ auth[c].pc = "verify"
  /\ IF jwks_cache # None
     THEN FirstDecode(c, jwks_cache[1], jwks_cache)
     ELSE /\ jwks_cache' = jwks_cache
          /\ auth' = [auth EXCEPT ![c] =
               IF DYNAMIC_ENVIRONMENT_ID
               THEN [@ EXCEPT !.pc = "fetch1", !.fetches = @ + 1]
               ELSE AuthEnd(@, 500)]
  /\ UNCHANGED <<pipelineVars, jwks_served, DYNAMIC_ENVIRONMENT_ID, auth_calls>>

\* A verification that clears the cache and fetches again after every
\* signature error.
FetchDoneRetryAgain(c) ==
  /\ auth[c].pc \in {"fetch1", "fetch2"}
  /\ auth[c].decodes < 4
  /\ \/ /\ auth' = [auth EXCEPT ![c] = AuthEnd(@, 503)]
        /\ jwks_cache' = jwks_cache
     \/ FirstDecode(c, jwks_served, Some(jwks_served))
  /\ UNCHANGED <<pipelineVars, jwks_served, DYNAMIC_ENVIRONMENT_ID, auth_calls>>

\* The fetch of get_jwks ends.  httpx.HTTPError: 503, the cache untouched.
\* Otherwise the cache is set to the served key set and verify_dynamic_token
\* goes on: after the first get_jwks with the first decode, after the second
\* with the one retry, whose JWTError is the 401.
FetchDone(c) ==
  /\ auth[c].pc \in {"fetch1", "fetch2"}
  /\ \/ /\ auth' = [auth EXCEPT ![c] = AuthEnd(@, 503)]
        /\ jwks_cache' = jwks_cache
     \/ IF auth[c].pc = "fetch1"
        THEN FirstDecode(c, jwks_served, Some(jwks_served))
        ELSE LET r == jwt_decode(auth[c].token, jwks_served)
                 a == [auth[c] EXCEPT !.fresh_jwks = Some(jwks_served),
                                      !.decodes = @ + 1,
                                      !.last_decode = IF r.ok THEN "ok" ELSE "failed"]
             IN /\ jwks_cache' = Some(jwks_served)
                /\ auth' = [auth EXCEPT ![c] =
                     IF r.ok THEN [a EXCEPT !.pc = "verified"] ELSE AuthEnd(a, 401)]
  /\ UNCHANGED <<pipelineVars, jwks_served, DYNAMIC_ENVIRONMENT_ID, auth_calls>>

\* The positions of the credentials of a chain that have an address.
WithAddress(credentials, chain) ==
  {i \in 1..Len(credentials) :
     credentials[i].chain = chain /\ credentials[i].address # ""}

FirstIn(S) == CHOOSE i \in S : \A k \in S : i <= k

\* extract_wallet_address: the address, or None for the 401.
extract_wallet_address(credentials) ==
  IF credentials = <<>> THEN None
  ELSE IF WithAddress(credentials, "eip155") # {}
       THEN Some(credentials[FirstIn(WithAddress(credentials, "eip155"))].address)
  ELSE IF WithAddress(credentials, "solana") # {}
       THEN Some(credentials[FirstIn(WithAddress(credentials, "solana"))].address)
  ELSE IF credentials[1].address # "" THEN Some(credentials[1].address)
  ELSE None

\* get_current_user after verify_dynamic_token returned the payload.
ExtractWallet(c) ==
  /\ auth[c].pc = "verified"
  /\ LET a == extract_wallet_address(auth[c].token.credentials)
     IN auth' = [auth EXCEPT ![c] =
                   IF a = None THEN AuthEnd(@, 401)
                   ELSE [AuthEnd(@, 200) EXCEPT !.wallet = a]]
  /\ UNCHANGED <<pipelineVars, jwks_cache, jwks_served, DYNAMIC_ENVIRONMENT_ID, auth_calls>>

\* The answer is sent: the caller may send another request.
AuthFinish(c) ==
  /\ auth[c].pc = "done"
  /\ auth' = [auth EXCEPT ![c] = IdleCall]
  /\ UNCHANGED <<pipelineVars, jwks_cache, jwks_served, DYNAMIC_ENVIRONMENT_ID, auth_calls>>

\* Dynamic rotates its keys: the endpoint serves a new key set.
Rotate ==
  /\ jwks_served = 1
  /\ jwks_served' = 2
  /\ UNCHANGED <<pipelineVars, jwks_cache, DYNAMIC_ENVIRONMENT_ID, auth, auth_calls>>

InitAuth ==
  /\ tasks = [t \in {"t1"} |-> [reward_per_submission |-> 10,
                                current_submissions |-> 0,
                                max_submissions |-> <<1>>]]
  /\ users = <<>>
  /\ submissions = <<>>
  /\ reputation_events = <<>>
  /\ req = [w \in Workers |-> IdleReq]
  /\ hist = <<>>
  /\ started = 0
  /\ faults = 0
  /\ api_key_set = TRUE
  /\ CLAUDE_AVAILABLE = TRUE
  /\ jwks_cache = None
  /\ jwks_served = 1
  /\ DYNAMIC_ENVIRONMENT_ID \in BOOLEAN
  /\ auth = [c \in Workers |-> IdleCall]
  /\ auth_calls = 0

NextAuth ==
  \/ Rotate
  \/ \E c \in Workers :
       \/ AuthStart(c)
       \/ VerifyBegin(c)
       \/ FetchDone(c)
       \/ ExtractWallet(c)
       \/ AuthFinish(c)

SpecAuth == InitAuth /\ [][NextAuth]_vars

\* ------------------------------- scenario: extract_wallet_address alone

CredentialLists ==
  UNION {[1..n -> [chain : {"eip155", "solana", "other"}, address : {"", "A", "B"}]] :
           n \in 0..MaxCredentials}

\* verify_dynamic_token has just returned the payload of the first call,
\* whose verified_credentials is any list.
InitWallet ==
  /\ tasks = [t \in {"t1"} |-> [reward_per_submission |-> 10,
                                current_submissions |-> 0,
                                max_submissions |-> <<1>>]]
  /\ users = <<>>
  /\ submissions = <<>>
  /\ reputation_events = <<>>
  /\ req = [w \in Workers |-> IdleReq]
  /\ hist = <<>>
  /\ started = 0
  /\ faults = 0
  /\ api_key_set = TRUE
  /\ CLAUDE_AVAILABLE = TRUE
  /\ jwks_cache = Some(1)
  /\ jwks_served = 1
  /\ DYNAMIC_ENVIRONMENT_ID = TRUE
  /\ \E creds \in CredentialLists :
       auth = [c \in Workers |->
                 IF c = "w1"
                 THEN [IdleCall EXCEPT !.pc = "verified",
                                       !.token = [key |-> 1, kind |-> "good",
                                                  credentials |-> creds],
                                       !.jwks = Some(1), !.decodes = 1,
                                       !.fetches = 1, !.last_decode = "ok"]
                 ELSE IdleCall]
  /\ auth_calls = 1

NextWallet == \E c \in Workers : ExtractWallet(c)

SpecWallet == InitWallet /\ [][NextWallet]_vars

\* ------------------------------------------------------------------ claims

Sids == 1..Len(submissions)

EventsOf(s) == {i \in 1..Len(reputation_events) : reputation_events[i].sid = s}

Quiescent == \A w \in Workers : req[w].pc = "idle"

\* C1: once the result fields of a submission have been written, as completed
\* or as failed, they are never written again: every submission that left
\* pending has had exactly one write of its result fields.
C1_TerminalWrittenOnce ==
  \A s \in Sids : hist[s].status # "pending" => hist[s].writes = 1

\* C2: a submission never has two reputation events, whichever storage call
\* raises after the first was appended; and a submission that reached a
\* terminal state has exactly one once its request has answered (the lower
\* limit is stated for the runs in which no storage call raised, where no
\* insert of an event can have been refused).
C2_ExactlyOneEvent ==
  \A s \in Sids :
    /\ Cardinality(EventsOf(s)) <= 1
    /\ (hist[s].response # 0 /\ hist[s].status # "pending" /\ faults = 0)
         => Cardinality(EventsOf(s)) = 1

\* C3: the task's current submission count is the number of its submissions
\* that ended completed: each completed one added exactly 1, a failed one
\* added nothing, and nothing else changed it.
C3_CountIsCompleted ==
  Quiescent =>
    \A t \in DOMAIN tasks :
      tasks[t].current_submissions =
        Cardinality({s \in Sids : submissions[s].task_id = t
                                   /\ hist[s].status = "completed"})

\* C4: every user's reputation_score is within 0..100 in every reachable state.
C4_ReputationInRange ==
  \A u \in 1..Len(users) : users[u].reputation_score \in 0..100

\* A +5 event was applied to a user whose score is now the upper limit.
C4_Witness ==
  \E u \in 1..Len(users) :
    /\ users[u].reputation_score = 100
    /\ \E i \in 1..Len(reputation_events) :
         reputation_events[i].user_id = u /\ reputation_events[i].delta = 5

\* C5: every recorded reputation event is the one the verification outcome of
\* its submission determines: +5 accepted with the verdict feedback for a valid
\* verdict, -2 rejected with the verdict feedback for an invalid one, and
\* -1 rejected "Verification failed" when the verification raised.
C5_EventMatchesOutcome ==
  \A i \in 1..Len(reputation_events) :
    LET e == reputation_events[i]
        h == hist[e.sid]
        got == [event_type |-> e.event_type, reason |-> e.reason, delta |-> e.delta]
    IN /\ h.verify # "none"
       /\ h.verify = "raised" =>
            got = [event_type |-> "submission_rejected",
                   reason |-> <<"Verification failed">>, delta |-> -1]
       /\ (h.verify = "returned" /\ h.result[1].is_valid) =>
            got = [event_type |-> "submission_accepted",
                   reason |-> h.result[1].feedback, delta |-> 5]
       /\ (h.verify = "returned" /\ ~h.result[1].is_valid) =>
            got = [event_type |-> "submission_rejected",
                   reason |-> h.result[1].feedback, delta |-> -2]

\* C6: for every completed submission, reward_earned is the task's
\* reward_per_submission times the verdict's ai_score, the score not clamped.
C6_RewardLinear ==
  \A s \in Sids :
    hist[s].status = "completed" =>
      /\ submissions[s].ai_score = Some(hist[s].result[1].ai_score)
      /\ submissions[s].reward_earned =
           tasks[submissions[s].task_id].reward_per_submission
             * hist[s].result[1].ai_score

\* A completed submission scored 0.85 on a task paying 10.0 earned 8.5, and a
\* completed submission scored 5 earned 50.
C6_Witness ==
  /\ \E s \in Sids :
       /\ hist[s].status = "completed"
       /\ tasks[submissions[s].task_id].reward_per_submission = 10
       /\ submissions[s].ai_score = Some(85)
       /\ submissions[s].reward_earned = 850
  /\ \E s \in Sids :
       /\ hist[s].status = "completed"
       /\ submissions[s].ai_score = Some(500)
       /\ submissions[s].reward_earned = 5000

\* C7: when the verification raised, the write of the handler stores
\* ai_score 0.0, is_valid false, reward_earned 0.0 and the feedback
\* "Verification error: " followed by the error's message, and the request
\* answers HTTP 500, never a success payload.
C7_FailurePersisted ==
  /\ \A s \in Sids :
       hist[s].verify = "raised" =>
         /\ hist[s].response \in {0, 500}
         /\ hist[s].writes >= 1 =>
              /\ hist[s].status = "failed"
              /\ submissions[s].ai_score = Some(0)
              /\ submissions[s].is_valid = Some(FALSE)
              /\ submissions[s].reward_earned = 0
              /\ Len(submissions[s].feedback) > 1
              /\ submissions[s].feedback[1] = "Verification error: "
  /\ \A w \in Workers :
       (req[w].sid # 0 /\ hist[req[w].sid].verify = "raised") =>
         /\ req[w].pc = "done" => req[w].response = 500
         /\ (req[w].pc # "done" /\ hist[req[w].sid].writes >= 1) =>
              submissions[req[w].sid].feedback =
                <<"Verification error: ">> \o req[w].exc.msg

\* A verification raised, the failed fields are stored and the answer is 500.
C7_Witness ==
  \E w \in Workers :
    /\ req[w].pc = "done"
    /\ req[w].sid # 0
    /\ req[w].response = 500
    /\ hist[req[w].sid].verify = "raised"
    /\ hist[req[w].sid].status = "failed"
    /\ submissions[req[w].sid].is_valid = Some(FALSE)
    /\ submissions[req[w].sid].reward_earned = 0

\* C8: every exception that leaves verify_submission is a VerificationError.
C8_OnlyVerificationError ==
  \A w \in Workers :
    (req[w].sid # 0 /\ req[w].pc # "done" /\ hist[req[w].sid].verify = "raised")
      => req[w].exc.type = "VerificationError"

\* C9: the verification fails with a timeout exactly when the measured
\* execution time exceeds timeout_seconds * 1000 ms; the time is measured only
\* after the one judge call returned and its response was parsed; a
\* measurement that does not exceed the budget lets the verification return.
C9_TimeoutPostHoc ==
  \A w \in Workers :
    /\ req[w].exc.cause = "TimeoutError" => req[w].execution_time # None
    /\ req[w].execution_time # None =>
         /\ hist[req[w].sid].judge_calls = 1
         /\ hist[req[w].sid].parsed
         /\ (req[w].exc.cause = "TimeoutError"
               <=> req[w].execution_time[1] > timeout_seconds * 1000)
         /\ (hist[req[w].sid].verify = "returned"
               <=> req[w].execution_time[1] <= timeout_seconds * 1000)

\* A verification timed out at 30001 ms after its response had been parsed.
C9_Witness ==
  \E w \in Workers :
    /\ req[w].exc.type = "VerificationError"
    /\ req[w].exc.cause = "TimeoutError"
    /\ req[w].execution_time = Some(30001)
    /\ hist[req[w].sid].parsed
    /\ hist[req[w].sid].verify = "raised"

\* C10: the judge is called at most once per submission, exactly once for
\* every verification whose client could be built, never again after the
\* call failed, and no worker verifies a submission that is already terminal
\* or that another worker holds.
C10_JudgeAtMostOnce ==
  /\ \A s \in Sids :
       /\ hist[s].judge_calls <= 1
       /\ (hist[s].verify # "none" /\ api_key_set) => hist[s].judge_calls = 1
  /\ \A w \in Workers :
       req[w].pc \in {"client_init", "judge_call", "parse", "timing"} =>
         /\ hist[req[w].sid].status = "pending"
         /\ \A v \in Workers \ {w} : req[v].sid # req[w].sid

\* The judge call of a submission raised; the submission is failed, the
\* request has answered 500 and the judge was called once.
C10_Witness ==
  \E s \in Sids :
    /\ hist[s].judge_calls = 1
    /\ ~hist[s].parsed
    /\ hist[s].verify = "raised"
    /\ hist[s].status = "failed"
    /\ hist[s].response = 500

\* -------------------------------------------------- claims C11 to C20

\* The reputation events recorded for user u.
EventsOfUser(u) ==
  {i \in 1..Len(reputation_events) : reputation_events[i].user_id = u}

\* The score a user row can have had before any event: the row that exists
\* from the start, or a row made by get_or_create_user.
InitialScoresOf(u) == IF u = 1 THEN InitScores ELSE {50}

Bounded(x) == IF x > 100 THEN 100 ELSE IF x < 0 THEN 0 ELSE x

\* C12: the reputation update is a read followed by a clamped write: after
\* two events for one user (no storage call raised, every request answered)
\* the score is what applying both deltas one after the other gives, or what
\* applying only one of them to the initial score gives.
C12_LostUpdateOutcomes ==
  (Quiescent /\ faults = 0) =>
    \A u \in 1..Len(users) :
      \A i \in EventsOfUser(u) : \A j \in EventsOfUser(u) :
        (i < j /\ EventsOfUser(u) = {i, j}) =>
          LET di == reputation_events[i].delta
              dj == reputation_events[j].delta
          IN \E s0 \in InitialScoresOf(u) :
               users[u].reputation_score \in
                 {Bounded(Bounded(s0 + di) + dj), Bounded(Bounded(s0 + dj) + di),
                  Bounded(s0 + di), Bounded(s0 + dj)}

\* Two +5 events of one user interleaved: the score went up by 5, not by 10.
C12_Witness ==
  /\ Quiescent
  /\ faults = 0
  /\ \E u \in 1..Len(users) :
       \E i \in EventsOfUser(u) : \E j \in EventsOfUser(u) :
         /\ i < j
         /\ EventsOfUser(u) = {i, j}
         /\ reputation_events[i].delta = 5
         /\ reputation_events[j].delta = 5
         /\ \E s0 \in InitialScoresOf(u) :
              s0 + 10 <= 100 /\ users[u].reputation_score = s0 + 5

\* C14: get_or_create_user keeps at most one user row per wallet_address, and
\* every request that got a user for a wallet holds the id of that one row.
C14_OneUserPerWallet ==
  /\ \A a \in Wallets :
       Cardinality({i \in 1..Len(users) : users[i].wallet_address = a}) <= 1
  /\ \A w \in Workers : \A v \in Workers :
       (req[w].user # 0 /\ req[v].user # 0 /\ req[w].wallet = req[v].wallet)
         => req[w].user = req[v].user

\* C15: the event log only grows at its end, and a request that appended an
\* event leaves update_user_reputation only by the write of the score: the
\* update is neither skipped nor does it fail with the event left recorded.
C15_EventThenOneWrite ==
  [][ /\ Len(reputation_events') >= Len(reputation_events)
      /\ SubSeq(reputation_events', 1, Len(reputation_events)) = reputation_events
      /\ \A w \in Workers :
           (req[w].pc \in {"rep_select", "rep_update"}
              /\ req'[w].pc \notin {"rep_select", "rep_update"})
             => (req[w].pc = "rep_update" /\ faults' = faults) ]_vars

\* The last event the request of submission s appended.
LastEventOf(s) ==
  reputation_events[CHOOSE i \in EventsOf(s) : \A k \in EventsOf(s) : k <= i]

\* C16: update_user_reputation writes max(0, min(100, old_score + delta)),
\* old_score being the value it read and delta the delta of the event.
C16_ClampedWrite ==
  [][ \A w \in Workers :
        (req[w].pc = "rep_update" /\ req'[w].pc # "rep_update" /\ faults' = faults)
          => LET x == req[w].read + LastEventOf(req[w].sid).delta
             IN /\ req[w].read \in 0..100
                /\ users'[req[w].user].reputation_score =
                     (IF x > 100 THEN 100 ELSE IF x < 0 THEN 0 ELSE x) ]_vars

\* A user whose only event is a -2 has score 0: the update read 1 and wrote
\* 0, not -1.
C16_Witness ==
  /\ Quiescent
  /\ \E i \in EventsOfUser(1) :
       /\ EventsOfUser(1) = {i}
       /\ reputation_events[i].delta = -2
       /\ users[1].reputation_score = 0

\* C17: every recorded event carries the requested delta of its kind (+5
\* accepted, -2 rejected, -1 for a failed verification), whatever the clamp
\* lets through, and the delta handed to update_user_reputation is that one.
C17_RequestedDeltaRecorded ==
  /\ \A i \in 1..Len(reputation_events) :
       LET e == reputation_events[i]
       IN e.delta = (IF e.event_type = "submission_accepted" THEN 5
                     ELSE IF e.reason = <<"Verification failed">> THEN -1 ELSE -2)
  /\ \A w \in Workers :
       req[w].pc \in {"rep_select", "rep_update"} =>
         LastEventOf(req[w].sid).delta = EventFor(req[w]).delta

\* The only event of the first user records +5 while the score, clamped at
\* 100, moved by less: the recorded deltas do not sum to the change.
C17_Witness ==
  /\ Quiescent
  /\ \E i \in EventsOfUser(1) :
       /\ EventsOfUser(1) = {i}
       /\ reputation_events[i].delta = 5
       /\ users[1].reputation_score = 100
       /\ \A s0 \in InitialScoresOf(1) : s0 + 5 # 100

\* C13: the current submission count of a task is never negative and no step
\* of any request writes a smaller value than the one stored just before.
C13_CountNeverDecreases ==
  [][ \A t \in DOMAIN tasks :
        /\ tasks'[t].current_submissions >= 0
        /\ tasks'[t].current_submissions >= tasks[t].current_submissions ]_vars

\* C11: in the variant with the mock fallback, a submission is completed with
\* the mock verdict (model "mock-verifier", reward 0.85 * reward_per_submission)
\* only when the live judge could not be set up at all, so that no judge call
\* was made for it; a submission whose one judge call, parse or time check
\* failed is never completed with the mock verdict.
C11_MockOnlyWhenUninitializable ==
  \A s \in Sids :
    (submissions[s].status = "completed"
       /\ submissions[s].model_used = Some("mock-verifier"))
      => /\ hist[s].judge_calls = 0
         /\ (~CLAUDE_AVAILABLE \/ ~api_key_set)

\* What a verdict object says, read member by member from the left, a later
\* member replacing an earlier one with the same key; the fields start at
\* their defaults.  A score that is not a number is marked -1.
DefaultFields ==
  [is_valid |-> FALSE, ai_score |-> 0, feedback |-> <<"No feedback provided">>]

ApplyMember(d, tok) ==
  CASE tok = "is_valid:true" -> [d EXCEPT !.is_valid = TRUE]
    [] tok = "is_valid:false" -> [d EXCEPT !.is_valid = FALSE]
    [] tok = "score:0.85" -> [d EXCEPT !.ai_score = 85]
    [] tok = "score:0.1" -> [d EXCEPT !.ai_score = 10]
    [] tok = "score:5" -> [d EXCEPT !.ai_score = 500]
    [] tok = "score:high" -> [d EXCEPT !.ai_score = -1]
    [] tok = "feedback:good" -> [d EXCEPT !.feedback = <<"good">>]
    [] tok = "feedback:bad" -> [d EXCEPT !.feedback = <<"bad">>]
    [] OTHER -> d

RECURSIVE ExpectedFields(_)
ExpectedFields(members) ==
  IF members = <<>> THEN DefaultFields
  ELSE ApplyMember(ExpectedFields(SubSeq(members, 1, Len(members) - 1)),
                   members[Len(members)])

\* The text is one object of members: the members between its braces.
IsVerdictObject(text) ==
  /\ Len(text) >= 2
  /\ text[1] = "{"
  /\ text[Len(text)] = "}"
  /\ \A i \in 2..(Len(text) - 1) : text[i] \notin {"{", "}", "prose", "42"}

MembersOf(text) == SubSeq(text, 2, Len(text) - 1)

\* Opening minus closing braces in text[a..b].
Depth(text, a, b) ==
  Cardinality({k \in a..b : text[k] = "{"}) - Cardinality({k \in a..b : text[k] = "}"})

IsBalancedAt(text, i, j) ==
  /\ i < j
  /\ text[i] = "{"
  /\ Depth(text, i, j) = 0
  /\ \A k \in i..(j - 1) : Depth(text, i, k) > 0

HasBalanced(text) ==
  \E i \in 1..Len(text) : \E j \in 1..Len(text) : IsBalancedAt(text, i, j)

\* The first balanced {...} substring: the leftmost "{" that is ever closed,
\* up to the "}" that closes it.
FirstBalanced(text) ==
  LET i == CHOOSE a \in 1..Len(text) :
             /\ \E j \in 1..Len(text) : IsBalancedAt(text, a, j)
             /\ \A b \in 1..(a - 1) : \A j \in 1..Len(text) : ~IsBalancedAt(text, b, j)
      j == CHOOSE c \in 1..Len(text) : IsBalancedAt(text, i, c)
  IN SubSeq(text, i, j)

\* The verdict fields a parse step left in the request.
ParsedFields(r) ==
  [is_valid |-> r.result.is_valid, ai_score |-> r.result.ai_score,
   feedback |-> r.result.feedback]

\* C18: when the whole judge text is not a JSON value and its first balanced
\* {...} substring is a well-formed verdict object, the parse succeeds and the
\* verdict is the fields of that first object, also when further braces or a
\* second object follow it.
C18_FirstBalancedObject ==
  [][ \A w \in Workers :
        (req[w].pc = "parse" /\ req'[w].pc # "parse"
           /\ req[w].text # <<"42">>
           /\ ~IsVerdictObject(req[w].text)
           /\ HasBalanced(req[w].text)
           /\ IsVerdictObject(FirstBalanced(req[w].text))
           /\ ExpectedFields(MembersOf(FirstBalanced(req[w].text))).ai_score # -1)
          => /\ req'[w].pc = "timing"
             /\ ParsedFields(req'[w]) =
                  ExpectedFields(MembersOf(FirstBalanced(req[w].text))) ]_vars

\* No reading of the text gives a JSON object: not the whole text, not the
\* substring the parser extracts, not the first balanced substring.
Uninterpretable(text) ==
  /\ ~IsVerdictObject(text)
  /\ RegexHasMatch(text) => ~IsVerdictObject(RegexMatch(text))
  /\ HasBalanced(text) => ~IsVerdictObject(FirstBalanced(text))

\* C19: when neither the whole judge text nor an extracted {...} substring is
\* a JSON object, the parser fails with its own error, "Could not parse Claude
\* response: " followed by the raw text: for text without braces, for text
\* whose extracted substring is not JSON, and for a JSON value that is not an
\* object.
C19_UnparsableError ==
  [][ \A w \in Workers :
        (req[w].pc = "parse" /\ req'[w].pc # "parse" /\ Uninterpretable(req[w].text))
          => /\ req'[w].exc.cause = "VerificationError"
             /\ req'[w].exc.msg =
                  <<"Verification failed: ", "Could not parse Claude response: ">>
                    \o req[w].text ]_vars

\* C20 as stated: for every judge text that is a single JSON object the parse
\* gives a verdict whose fields are the object's values for is_valid, score
\* and feedback, an absent key taking its default, the score not clamped.
C20_ObjectFields ==
  [][ \A w \in Workers :
        (req[w].pc = "parse" /\ req'[w].pc # "parse" /\ IsVerdictObject(req[w].text))
          => /\ req'[w].pc = "timing"
             /\ ParsedFields(req'[w]) = ExpectedFields(MembersOf(req[w].text)) ]_vars

\* C20, amended: the same for every single JSON object whose score, when it
\* has one, is a number.
C20_ObjectFieldsNumericScore ==
  [][ \A w \in Workers :
        (req[w].pc = "parse" /\ req'[w].pc # "parse" /\ IsVerdictObject(req[w].text)
           /\ ExpectedFields(MembersOf(req[w].text)).ai_score # -1)
          => /\ req'[w].pc = "timing"
             /\ ParsedFields(req'[w]) = ExpectedFields(MembersOf(req[w].text)) ]_vars

\* An object with is_valid true, score 5 and no feedback was parsed: the
\* verdict has the score 5.0 and the placeholder feedback.
C20_Witness ==
  \E w \in Workers :
    /\ req[w].pc = "timing"
    /\ hist[req[w].sid].parsed
    /\ req[w].result.is_valid
    /\ req[w].result.ai_score = 500
    /\ req[w].result.feedback = <<"No feedback provided">>

\* -------------------------------------------------- claims C21 to C30

\* The pcs at which a request holds the VerificationResult of its parse.
HoldsResult(r) ==
  /\ r.branch = "try"
  /\ r.pc \in {"timing", "update_sub", "insert_event", "rep_select", "rep_update",
               "count_select", "count_update"}

\* C21: every persisted ai_score is null or within 0.0 to 1.0, and so is the
\* ai_score of every VerificationResult, whatever score the judge text has.
C21_ScoreInUnitRange ==
  /\ \A s \in Sids :
       submissions[s].ai_score # None => submissions[s].ai_score[1] \in 0..100
  /\ \A w \in Workers :
       HoldsResult(req[w]) => req[w].result.ai_score \in 0..100

\* C22: a VerificationResult is built once per verification attempt, by the
\* parse, and no step changes a field of it while the request holds it.
C22_ResultImmutable ==
  [][ \A w \in Workers :
        /\ (~HoldsResult(req[w]) /\ HoldsResult(req'[w]))
             => (req[w].pc = "parse" /\ ~hist[req[w].sid].parsed)
        /\ (HoldsResult(req[w]) /\ HoldsResult(req'[w]))
             => req'[w].result = req[w].result ]_vars

\* C23: within one request the pending row exists before the judge is called,
\* the verdict fields are written before the reputation event is appended,
\* and the event is appended before the task's count is incremented.
C23_StepOrder ==
  [][ /\ \A s \in 1..Len(hist) :
           hist'[s].judge_calls > hist[s].judge_calls
             => /\ s \in Sids
                /\ submissions[s].ai_score = None
                /\ submissions[s].is_valid = None
                /\ hist[s].writes = 0
      /\ Len(reputation_events') > Len(reputation_events)
           => hist[reputation_events'[Len(reputation_events')].sid].writes >= 1
      /\ tasks' # tasks
           => \E w \in Workers :
                /\ req[w].pc = "count_update"
                /\ hist[req[w].sid].writes >= 1
                /\ EventsOf(req[w].sid) # {} ]_vars

\* A request ran the whole success path: its submission is written once, has
\* its one event, the count is 1 and the answer is 200.
C23_Witness ==
  \E s \in Sids :
    /\ hist[s].response = 200
    /\ hist[s].judge_calls = 1
    /\ hist[s].writes = 1
    /\ Cardinality(EventsOf(s)) = 1
    /\ tasks[submissions[s].task_id].current_submissions = 1

\* C27: a request for a task id that does not exist is answered 404 by the
\* task lookup and that step changes no table: no submission, no event, no
\* score, no count; the judge is never called for it.
C27_NotFoundChangesNothing ==
  [][ \A w \in Workers :
        (req[w].pc = "get_task" /\ req[w].task_id \notin DOMAIN tasks
           /\ req'[w] # req[w] /\ faults' = faults)
          => /\ req'[w].pc = "done"
             /\ req'[w].response = 404
             /\ req'[w].sid = 0
             /\ UNCHANGED <<tasks, users, submissions, reputation_events, hist>> ]_vars

\* A request for the missing task has answered 404; nothing is stored.
C27_Witness ==
  /\ \E w \in Workers :
       req[w].pc = "done" /\ req[w].task_id = "t404" /\ req[w].response = 404
  /\ submissions = <<>>
  /\ reputation_events = <<>>
  /\ \A t \in DOMAIN tasks : tasks[t].current_submissions = 0

\* C28 as stated: for every completed submission, is_valid = false implies
\* reward_earned = 0.
C28_InvalidEarnsNothing ==
  \A s \in Sids :
    (hist[s].status = "completed" /\ submissions[s].is_valid = Some(FALSE))
      => submissions[s].reward_earned = 0

\* C28, amended: a failed submission earns 0; a completed submission with
\* is_valid = false earns 0 exactly when its ai_score is 0, and otherwise the
\* positive product of the task's reward and the score.
C28_InvalidEarnsByScore ==
  \A s \in Sids :
    /\ hist[s].status = "failed" => submissions[s].reward_earned = 0
    /\ (hist[s].status = "completed" /\ submissions[s].is_valid = Some(FALSE))
         => /\ submissions[s].reward_earned = 0 <=> submissions[s].ai_score = Some(0)
            /\ submissions[s].ai_score # Some(0) => submissions[s].reward_earned > 0

\* A completed submission judged invalid with score 0.1 earned 1.0.
C28_Witness ==
  \E s \in Sids :
    /\ hist[s].status = "completed"
    /\ submissions[s].is_valid = Some(FALSE)
    /\ submissions[s].ai_score = Some(10)
    /\ submissions[s].reward_earned = 100

\* C29: the current submission count of a task created with max_submissions
\* never exceeds max_submissions.
C29_CountWithinMax ==
  \A t \in DOMAIN tasks :
    tasks[t].max_submissions # None
      => tasks[t].current_submissions <= tasks[t].max_submissions[1]

\* C30: total_tasks_completed and total_rewards_earned of every user are 0 in
\* every reachable state.
C30_TotalsNeverWritten ==
  \A u \in 1..Len(users) :
    users[u].total_tasks_completed = 0 /\ users[u].total_rewards_earned = 0

\* A user has a completed submission that earned a reward, the request has
\* answered 200, and the user's totals are still 0.
C30_Witness ==
  \E s \in Sids :
    /\ hist[s].status = "completed"
    /\ hist[s].response = 200
    /\ submissions[s].reward_earned > 0
    /\ users[submissions[s].user_id].total_tasks_completed = 0
    /\ users[submissions[s].user_id].total_rewards_earned = 0

FetchFailed(c) ==
  auth[c].pc \in {"fetch1", "fetch2"} /\ auth'[c].outcome = 503

\* What get_jwks and clear_jwks_cache do to the cache in one step, a failed
\* fetch apart: a set cache is returned without fetching; on an empty cache
\* get_jwks fetches; a successful fetch sets the cache to the fetched key
\* set; only clear_jwks_cache empties a set cache, and the get_jwks that
\* follows it fetches.
CacheStep ==
  /\ (jwks_cache # None /\ jwks_cache' = None)
       => \E d \in Workers : auth'[d].clears > auth[d].clears
  /\ \A c \in Workers :
       /\ (auth[c].pc = "verify" /\ auth'[c] # auth[c] /\ jwks_cache # None)
            => /\ auth'[c].jwks = jwks_cache
               /\ auth'[c].clears = 0 =>
                    (auth'[c].fetches = 0 /\ jwks_cache' = jwks_cache)
       /\ (auth[c].pc = "verify" /\ auth'[c] # auth[c] /\ jwks_cache = None
             /\ DYNAMIC_ENVIRONMENT_ID)
            => (auth'[c].pc = "fetch1" /\ auth'[c].fetches = 1)
       /\ (auth[c].pc \in {"fetch1", "fetch2"} /\ auth'[c] # auth[c]
             /\ auth'[c].outcome # 503 /\ auth'[c].clears = auth[c].clears)
            => jwks_cache' = Some(jwks_served)
       /\ auth'[c].clears > auth[c].clears
            => /\ jwks_cache' = None
               /\ DYNAMIC_ENVIRONMENT_ID => auth'[c].pc = "fetch2"

\* C25: while the cache is set get_jwks returns it without fetching; a
\* successful fetch sets the cache; a failed fetch leaves the cache empty;
\* only clear_jwks_cache empties a set cache, and the next get_jwks fetches.
C25_FailedFetchLeavesEmpty ==
  [][ /\ CacheStep
      /\ \A c \in Workers : FetchFailed(c) => jwks_cache' = None ]_vars

\* C25, amended: as above, but a failed fetch leaves the cache as it was,
\* which is empty unless the fetch of a concurrent call has set it meanwhile.
C25_JwksCache ==
  [][ /\ CacheStep
      /\ \A c \in Workers : FetchFailed(c) => jwks_cache' = jwks_cache ]_vars

\* One call's fetch failed and the cache is set, by the fetch of the other
\* call, which was verified with the key set it fetched.
C25_Witness ==
  \E c, d \in Workers :
    /\ auth[c].pc = "done" /\ auth[c].outcome = 503 /\ auth[c].decodes = 0
    /\ auth[d].pc = "verified" /\ auth[d].fetches = 1 /\ auth[d].decodes = 1
    /\ jwks_cache = auth[d].jwks
    /\ jwks_cache # None

\* The positions of the credentials that have an address.
AnyWithAddress(credentials) ==
  {i \in 1..Len(credentials) : credentials[i].address # ""}

\* The address the claim names for a list.
ClaimedWallet(credentials) ==
  IF WithAddress(credentials, "eip155") # {}
  THEN Some(credentials[FirstIn(WithAddress(credentials, "eip155"))].address)
  ELSE IF WithAddress(credentials, "solana") # {}
  THEN Some(credentials[FirstIn(WithAddress(credentials, "solana"))].address)
  ELSE IF AnyWithAddress(credentials) # {}
  THEN Some(credentials[FirstIn(AnyWithAddress(credentials))].address)
  ELSE None

\* C26: extract_wallet_address returns the first non-empty eip155 address,
\* else the first non-empty solana address, else the first address of any
\* chain, and answers 401 only when no credential has an address.
C26_WalletPreference ==
  \A c \in Workers :
    (auth[c].pc = "done" /\ auth[c].last_decode = "ok")
      => /\ auth[c].wallet = ClaimedWallet(auth[c].token.credentials)
         /\ auth[c].outcome = 401
              <=> AnyWithAddress(auth[c].token.credentials) = {}

====
